---- MODULE Spec2Model ----
(***************************************************************************)
(* Rollout step processor of the training environment                      *)
(* (training/action_processor.py, training/utils.py), the patch tool       *)
(* (agent/tools.py) and the reply-reward evaluators with their judge       *)
(* (training/retrieval.py, training/update.py, training/reward.py).        *)
(*                                                                         *)
(* Text is a sequence of tokens.  A token is a string that the code never  *)
(* looks inside: a tag, a role word, a run of ordinary text, or a single   *)
(* whitespace character.  The parsed fields of a turn (python_code, reply, *)
(* thoughts) are built from one-character tokens and the tokens of the     *)
(* bootstrap idioms, so Len of a stripped field is its length.             *)
(*                                                                         *)
(* Rewards are exact rationals, held as integers in units of               *)
(* 1 / (1000 * MAX_STEPS): One is the reward 1.0.                          *)
(***************************************************************************)
EXTENDS Integers, Sequences, FiniteSets, TLC

VARIABLES
    observation,    \* the transcript the driver holds
    task,           \* the Task of the rollout
    step_num,       \* the step number the driver passes to the next call
    done,           \* done flag returned by the last call
    reward,         \* reward returned by the last call
    sandbox_calls,  \* invocations of execute_sandboxed_code by the last call
    reply_calls,    \* invocations of reply_reward_calculator by the last call
    last,           \* arguments and locals of the last call
    pc,             \* state of the step machine: the branch the last call took
    think_turns,    \* history: complete think blocks the model's turns held
    input,          \* the argument of a codec or text function under call
    output,         \* what that function returned or raised
    files,          \* the files of the directory a patch is applied in
    calls,          \* the external calls made so far: git runs, judge completions
    removed,        \* how many times os.remove has removed the scratch patch
    patch_file,     \* write_to_file's local patch_file, or "unbound"
    rollouts        \* the rollouts that run side by side, each with its state

vars == <<observation, task, step_num, done, reward, sandbox_calls,
          reply_calls, last, pc, think_turns, input, output, files, calls,
          removed, patch_file, rollouts>>

\* the variables of the patch tool, of the judge and of side-by-side rollouts
toolvars == <<files, calls, removed, patch_file, rollouts>>

\* none of them in use
ToolIdle ==
    /\ files = <<>>
    /\ calls = <<>>
    /\ removed = 0
    /\ patch_file = "unbound"
    /\ rollouts = <<>>

----------------------------------------------------------------------------
(* Bounds of the model *)

\* largest step_num a call is given (beyond MAX_STEPS)
MaxStepNum == 10
\* longest rollout the driver runs
MaxTurns == 3

----------------------------------------------------------------------------
(* Constants of the program *)

MAX_STEPS == 8

One == 1000 * MAX_STEPS

TaskTypes == {"retrieval", "update", "clarification"}

OBSIDIAN_ROOT == <<"/", "repo">>

----------------------------------------------------------------------------
(* Strings *)

WS == {" ", "\n"}

Max(a, b) == IF a >= b THEN a ELSE b
Min(a, b) == IF a <= b THEN a ELSE b

RECURSIVE LStrip(_)
LStrip(s) ==
    IF s = <<>> THEN <<>>
    ELSE IF Head(s) \in WS THEN LStrip(Tail(s)) ELSE s

RECURSIVE RStrip(_)
RStrip(s) ==
    IF s = <<>> THEN <<>>
    ELSE IF s[Len(s)] \in WS THEN RStrip(SubSeq(s, 1, Len(s) - 1)) ELSE s

\* str.strip()
Strip(s) == RStrip(LStrip(s))

\* pat in s
Contains(s, pat) ==
    \E i \in 1..(Len(s) - Len(pat) + 1) : SubSeq(s, i, i + Len(pat) - 1) = pat

\* s.find(tok, from): the least index >= from holding tok, 0 if none
Find(s, tok, from) ==
    LET hits == {k \in from..Len(s) : s[k] = tok}
    IN IF hits = {} THEN 0 ELSE CHOOSE k \in hits : \A j \in hits : k <= j

\* os.path.join(a, b) for two parts
PathJoin(a, b) ==
    IF b # <<>> /\ Head(b) = "/" THEN b
    ELSE IF a = <<>> \/ a[Len(a)] = "/" THEN a \o b
    ELSE a \o <<"/">> \o b

MEMORY_PATH == PathJoin(OBSIDIAN_ROOT, <<"memory">>)

\* re.findall(r"<think>(.*?)</think>", s, re.DOTALL): the bodies of the
\* complete think regions, each opening tag paired with the nearest closing
\* tag after it, scanning from the left
RECURSIVE ThinkBlocks(_)
ThinkBlocks(s) ==
    LET i == Find(s, "<think>", 1)
        j == IF i = 0 THEN 0 ELSE Find(s, "</think>", i + 1)
    IN  IF j = 0 THEN <<>>
        ELSE <<SubSeq(s, i + 1, j - 1)>> \o ThinkBlocks(SubSeq(s, j + 1, Len(s)))

\* remove_all_thinks_except_last, lines 101-109: the text after the first
\* "assistant"; nothing when there is none
AfterAssistant(obs) ==
    LET assistant_pos == Find(obs, "assistant", 1)
    IN  IF assistant_pos = 0 THEN <<>>
        ELSE SubSeq(obs, assistant_pos + 1, Len(obs))

----------------------------------------------------------------------------
(* Reward shaping.  A scaling factor is held in units of 1 / ScaleOne and a   *)
(* coefficient in hundredths, so coefficient * factor is in units of 1 / One. *)

ScaleOne == 10 * MAX_STEPS

\* calculate_python_reward, line 13: max(0.0, 1.0 - (2 * step_num / MAX_STEPS))
PythonScalingFactor(step) ==
    Max(0, ScaleOne - (2 * step * ScaleOne) \div MAX_STEPS)

desired_strings ==
    { <<"check_if_file_exists(", "'user.md'", ")">>,
      <<"check_if_file_exists(", "\"user.md\"", ")">>,
      <<"read_file(", "'user.md'", ")">>,
      <<"read_file(", "\"user.md\"", ")">> }

\* as calculate_python_reward, without the step_num == 0 test
calculate_python_reward_AnyStep(python_code, step) ==
    LET scaling_factor == PythonScalingFactor(step)
        desired_strings_found ==
            \E string \in desired_strings : Contains(python_code, string)
    IN  15 * scaling_factor
        + (IF desired_strings_found THEN 20 * scaling_factor ELSE 0)

calculate_python_reward(python_code, step) ==
    LET scaling_factor == PythonScalingFactor(step)
        desired_strings_found ==
            \E string \in desired_strings : Contains(python_code, string)
    IN  15 * scaling_factor
        + (IF step = 0 /\ desired_strings_found THEN 20 * scaling_factor ELSE 0)

\* as ThoughtsScalingFactor, with the second segment measured from step 0
ThoughtsScalingFactor_NoOffset(step) ==
    IF 2 * step <= MAX_STEPS
    THEN ScaleOne - (8 * ((2 * step * ScaleOne) \div MAX_STEPS)) \div 10
    ELSE (2 * (ScaleOne - (2 * step * ScaleOne) \div MAX_STEPS)) \div 10

\* as ThoughtsScalingFactor, with the first segment falling over MAX_STEPS
\* instead of MAX_STEPS / 2
ThoughtsScalingFactor_FullSpan(step) ==
    IF 2 * step <= MAX_STEPS
    THEN ScaleOne - (8 * ((step * ScaleOne) \div MAX_STEPS)) \div 10
    ELSE (2 * (ScaleOne - ((2 * step - MAX_STEPS) * ScaleOne) \div MAX_STEPS)) \div 10

\* process_action_base, lines 76-79.  With h = MAX_STEPS / 2:
\*   step_num <= h:  1.0 - 0.8 * (step_num / h)
\*   otherwise:      0.2 * (1 - (step_num - h) / h)
\* Both divisions are exact in units of 1 / ScaleOne.
ThoughtsScalingFactor(step) ==
    IF 2 * step <= MAX_STEPS
    THEN ScaleOne - (8 * ((2 * step * ScaleOne) \div MAX_STEPS)) \div 10
    ELSE (2 * (ScaleOne - ((2 * step - MAX_STEPS) * ScaleOne) \div MAX_STEPS)) \div 10

\* lines 71-72 and 82-84: the reward before any branch adds to it
ThoughtsReward(thoughts, thoughts_min_length, step) ==
    LET thoughts_exists == Len(Strip(thoughts)) > 0
        thoughts_long_enough == Len(Strip(thoughts)) > thoughts_min_length
        thoughts_scaling_factor == ThoughtsScalingFactor(step)
    IN  (IF thoughts_exists THEN 5 ELSE 0) * thoughts_scaling_factor
        + (IF thoughts_long_enough THEN 5 * thoughts_scaling_factor ELSE 0)

\* as Clamp, without line 135
Clamp_UpperOnly(r) == Min(r, One)

\* lines 134-135: min(reward, 1.0) then max(reward, 0.0)
Clamp(r) == Max(Min(r, One), 0)

----------------------------------------------------------------------------
(* The step: process_action_base *)

PythonCodeExists(python_code) == Len(Strip(python_code)) > 0

ReplyExists(reply) == Len(Strip(reply)) > 0

\* as Branch, with the reply test before the python tests
Branch_ReplyFirst(python_code, reply) ==
    IF ReplyExists(reply) THEN "REPLY_TERMINAL"
    ELSE IF PythonCodeExists(python_code) THEN "PYTHON_STEP"
    ELSE "MALFORMED_NEITHER"

\* the if / elif / elif / else chain of lines 88, 96, 113, 121
Branch(python_code, reply) ==
    IF PythonCodeExists(python_code) /\ ReplyExists(reply) THEN "MALFORMED_BOTH"
    ELSE IF PythonCodeExists(python_code) THEN "PYTHON_STEP"
    ELSE IF ReplyExists(reply) THEN "REPLY_TERMINAL"
    ELSE "MALFORMED_NEITHER"

UserMarker == <<"\n", "user", "\n">>

AssistantMarker == <<"\n", "assistant", "\n">>

ChooseOneMessage ==
    <<"\n", " ", "[ERROR]", " ", "Choose one action", ":", " ",
      "either explore with", " ",
      "<python>", " ", "...", " ", "</python>", " ",
      "OR provide final answer with", " ",
      "<reply>", " ", "...", " ", "</reply>", ".",
      "\n", " ", "[HINT] If you haven't found the answer yet, use", " ",
      "<python>", " ", "to interact with the memory. If you're confident, use",
      " ", "<reply>", ".">>

MissingActionMessage ==
    <<"\n", " ", "[ERROR]", " ", "Missing action blocks", ".", " ",
      "You must either:",
      "\n", " ", " ", " ", "1. Use", " ", "<python>", "...", "</python>", " ",
      "to interact with the memory",
      "\n", " ", " ", " ", "2. Use", " ", "<reply>", "...", "</reply>", " ",
      "to provide your final answer to the user">>

\* agent.utils.format_results: the observation text of an execution result
FormatResults(local_vars, error_msg) ==
    <<"<result>", "\n">> \o local_vars \o <<"\n", "</result>">>
    \o (IF error_msg = <<>> THEN <<>> ELSE <<"\n", "[ERROR]", " ">> \o error_msg)

\* as BothObservation, with the message of the else branch
BothObservation_WrongMessage(obs, action) ==
    obs \o action \o UserMarker \o MissingActionMessage \o AssistantMarker

BothObservation(obs, action) ==
    obs \o action \o UserMarker \o ChooseOneMessage \o AssistantMarker

\* as PythonObservation, rebuilt from the turn without the transcript
PythonObservation_DropsTranscript(obs, action, local_vars, error_msg) ==
    action \o UserMarker \o FormatResults(local_vars, error_msg)
    \o AssistantMarker

PythonObservation(obs, action, local_vars, error_msg) ==
    obs \o action \o UserMarker \o FormatResults(local_vars, error_msg)
    \o AssistantMarker

\* as ReplyObservation, closing the turn like the other branches
ReplyObservation_WithMarker(obs, action) ==
    obs \o action \o AssistantMarker

ReplyObservation(obs, action) == obs \o action \o <<"\n">>

\* as NeitherObservation, without the turn text
NeitherObservation_DropsAction(obs, action) ==
    obs \o UserMarker \o MissingActionMessage \o AssistantMarker

NeitherObservation(obs, action) ==
    obs \o action \o UserMarker \o MissingActionMessage \o AssistantMarker

\* as SandboxCall, scoped to the memory root
SandboxCall_NoMemId(python_code, t, ret) ==
    [ code          |-> python_code,
      allowed_path  |-> MEMORY_PATH,
      import_module |-> "agent.tools",
      ret           |-> ret ]

\* the call of lines 97-101; ret is what the executor returns to it
SandboxCall(python_code, t, ret) ==
    [ code          |-> python_code,
      allowed_path  |-> PathJoin(MEMORY_PATH, t.mem_id),
      import_module |-> "agent.tools",
      ret           |-> ret ]

\* the call of line 115; ret is what the calculator returns to it
ReplyCall(obs, reply, t, ret) ==
    [ observation |-> obs, reply |-> reply, task |-> t, ret |-> ret ]

\* process_action_base.  exec_ret and reply_ret are what the two collaborators
\* return if the call reaches them.
ProcessActionBase(obs, action, python_code, reply, thoughts, t, min_length, step, exec_ret, reply_ret) ==
    LET branch == Branch(python_code, reply)
        thoughts_reward == ThoughtsReward(thoughts, min_length, step)
        python_reward ==
            IF branch = "PYTHON_STEP"
            THEN calculate_python_reward(python_code, step) ELSE 0
        reply_reward == IF branch = "REPLY_TERMINAL" THEN reply_ret ELSE 0
        raw == thoughts_reward + python_reward + reply_reward
    IN  [ branch           |-> branch,
          thoughts_reward  |-> thoughts_reward,
          python_reward    |-> python_reward,
          reply_reward     |-> reply_reward,
          raw              |-> raw,
          reward           |-> Clamp(raw),
          done             |-> (branch = "REPLY_TERMINAL"),
          sandbox_calls    |->
              IF branch = "PYTHON_STEP"
              THEN <<SandboxCall(python_code, t, exec_ret)>> ELSE <<>>,
          reply_calls      |->
              IF branch = "REPLY_TERMINAL"
              THEN <<ReplyCall(obs, reply, t, reply_ret)>> ELSE <<>>,
          next_observation |->
              CASE branch = "MALFORMED_BOTH" -> BothObservation(obs, action)
                [] branch = "PYTHON_STEP" ->
                     PythonObservation(obs, action, exec_ret.local_vars,
                                       exec_ret.error_msg)
                [] branch = "REPLY_TERMINAL" -> ReplyObservation(obs, action)
                [] OTHER -> NeitherObservation(obs, action) ]

----------------------------------------------------------------------------
(* Inputs of a call *)

\* a block of the turn markup; an absent block when the body is empty
Block(open, body, close) ==
    IF body = <<>> THEN <<>> ELSE <<open>> \o body \o <<close>>

\* a model turn and the fields the caller parsed from it
Turn(thoughts, python_code, reply) ==
    [ action      |-> Block("<think>", thoughts, "</think>")
                      \o Block("<python>", python_code, "</python>")
                      \o Block("<reply>", reply, "</reply>"),
      python_code |-> python_code,
      reply       |-> reply,
      thoughts    |-> thoughts ]

Thoughts ==
    { <<>>, <<" ">>, <<" ", "t", " ">>, <<"t", "h">>, <<"t", "h", "o">> }

Codes ==
    { <<>>, <<"\n", " ">>, <<"list_files()">>,
      <<"x", "=", "check_if_file_exists(", "'user.md'", ")">>,
      <<"check_if_file_exists(", "\"user.md\"", ")", "\n">>,
      <<"read_file(", "'user.md'", ")">>,
      <<"\n", "read_file(", "\"user.md\"", ")">>,
      <<"read_file(", " ", "'user.md'", ")">>,
      <<"read_file(", "'other.md'", ")">> }

Replies == { <<>>, <<" ">>, <<"r">> }

Turns ==
    { Turn(th, c, r) : th \in Thoughts, c \in Codes, r \in Replies }

ThoughtsMinLengths == {0, 2}

StepNums == 0..MaxStepNum

Tasks ==
    { [task_type |-> "retrieval", mem_id |-> <<"m1">>, answer |-> <<"a">>],
      [task_type |-> "update", mem_id |-> <<"m2">>, answer |-> <<"d">>],
      [task_type |-> "clarification", mem_id |-> <<"m1">>, answer |-> <<>>] }

\* what execute_sandboxed_code can return: (locals, error or none);
\* error_msg = <<>> stands for no error
ExecResults ==
    { [local_vars |-> <<"{'x': True}">>, error_msg |-> <<>>],
      [local_vars |-> <<"{}">>, error_msg |-> <<"NameError">>],
      [local_vars |-> <<"{'x': True}">>, error_msg |-> <<"PermissionError">>] }

\* what a reply-reward calculator can return, inside and outside [0, 1]
ReplyRewards == { 0 - One, 0, One \div 2, One, 2 * One }

\* the transcript a rollout starts from
Prompt ==
    <<"system", "\n", "You are an agent with a memory.", "\n",
      "user", "\n", "Where does Ann live?", "\n", "assistant", "\n">>

\* a transcript in the middle of a rollout: the prompt after one python turn
MidRollout ==
    ProcessActionBase(Prompt, Turn(<<"t", "h", "o">>, <<"list_files()">>, <<>>).action,
                      <<"list_files()">>, <<>>, <<"t", "h", "o">>,
                      CHOOSE t \in Tasks : t.task_type = "retrieval", 2, 0,
                      CHOOSE e \in ExecResults : e.error_msg = <<>>, 0
                     ).next_observation

Transcripts == { Prompt, MidRollout }

----------------------------------------------------------------------------
(* State machine *)

NoCall ==
    [ observation |-> <<>>, action |-> <<>>, python_code |-> <<>>,
      reply |-> <<>>, thoughts |-> <<>>, thoughts_min_length |-> 0,
      step_num |-> 0, thoughts_reward |-> 0, python_reward |-> 0,
      reply_reward |-> 0, raw |-> 0 ]

\* no codec or text function has been called
NoOutput == [ok |-> TRUE, value |-> <<>>, error |-> "", label |-> <<>>]

\* The values a collaborator can return to a call on this turn: all of them
\* when the turn's branch calls it, and one (never returned) when it does not
Reached(turn, branch, rets) ==
    IF Branch(turn.python_code, turn.reply) = branch
    THEN rets ELSE {CHOOSE x \in rets : TRUE}

\* one call of process_action_base on the current transcript, and the
\* driver taking over what it returns
Step(turn, thoughts_min_length, exec_ret, reply_ret) ==
    LET r == ProcessActionBase(observation, turn.action, turn.python_code,
                               turn.reply, turn.thoughts, task,
                               thoughts_min_length, step_num, exec_ret,
                               reply_ret)
    IN  /\ observation' = r.next_observation
        /\ done' = r.done
        /\ reward' = r.reward
        /\ sandbox_calls' = r.sandbox_calls
        /\ reply_calls' = r.reply_calls
        /\ pc' = r.branch
        /\ last' = [ observation |-> observation, action |-> turn.action,
                     python_code |-> turn.python_code, reply |-> turn.reply,
                     thoughts |-> turn.thoughts,
                     thoughts_min_length |-> thoughts_min_length,
                     step_num |-> step_num,
                     thoughts_reward |-> r.thoughts_reward,
                     python_reward |-> r.python_reward,
                     reply_reward |-> r.reply_reward,
                     raw |-> r.raw ]
        /\ step_num' = step_num + 1
        /\ think_turns' = think_turns + Len(ThinkBlocks(turn.action))
        /\ UNCHANGED <<task, input, output, toolvars>>

\* A single call, on any transcript, with any step number
Init ==
    /\ observation \in Transcripts
    /\ task \in Tasks
    /\ step_num \in StepNums
    /\ done = FALSE
    /\ reward = 0
    /\ sandbox_calls = <<>>
    /\ reply_calls = <<>>
    /\ last = NoCall
    /\ pc = "AWAITING_ACTION"
    /\ think_turns = Len(ThinkBlocks(AfterAssistant(observation)))
    /\ input = <<>>
    /\ output = NoOutput
    /\ ToolIdle

Call ==
    /\ pc = "AWAITING_ACTION"
    /\ \E turn \in Turns, tml \in ThoughtsMinLengths :
          \E e \in Reached(turn, "PYTHON_STEP", ExecResults),
             v \in Reached(turn, "REPLY_TERMINAL", ReplyRewards) :
                Step(turn, tml, e, v)

Next == Call

Spec == Init /\ [][Next]_vars

\* A rollout: the driver calls the step with step numbers 0, 1, ... until
\* done, at most MaxTurns times
RolloutTurns ==
    { Turn(th, c, r) : th \in {<<>>, <<"t", "h", "o">>},
                       c \in {<<>>, <<"read_file(", "'user.md'", ")">>},
                       r \in {<<>>, <<"r">>} }

RolloutExecResults == { e \in ExecResults : e.local_vars # <<"{}">> }

RolloutReplyRewards == { 0, One }

InitRollout ==
    /\ observation = Prompt
    /\ task \in Tasks
    /\ step_num = 0
    /\ done = FALSE
    /\ reward = 0
    /\ sandbox_calls = <<>>
    /\ reply_calls = <<>>
    /\ last = NoCall
    /\ pc = "AWAITING_ACTION"
    /\ think_turns = 0
    /\ input = <<>>
    /\ output = NoOutput
    /\ ToolIdle

RolloutStep ==
    /\ ~done
    /\ step_num < MaxTurns
    /\ \E turn \in RolloutTurns, tml \in ThoughtsMinLengths :
          \E e \in Reached(turn, "PYTHON_STEP", RolloutExecResults),
             v \in Reached(turn, "REPLY_TERMINAL", RolloutReplyRewards) :
                Step(turn, tml, e, v)

NextRollout == RolloutStep

SpecRollout == InitRollout /\ [][NextRollout]_vars

----------------------------------------------------------------------------
(* Task label codec: construct_label and extract_task_from_label *)

\* the sequences over S of length at most n
SeqsUpTo(S, n) == UNION {[1..k -> S] : k \in 0..n}

\* the run of the delimiter between its newlines
Tildes == "~/~/~/~/~/~/~/~/~/~/~/~"

DELIMITER == <<"\n", "\n", Tildes, "\n", "\n">>

\* the indexes at which pat occurs in s
Occurrences(s, pat) ==
    {i \in 1..(Len(s) - Len(pat) + 1) : SubSeq(s, i, i + Len(pat) - 1) = pat}

\* s.split(sep): cut at the occurrences of sep found from the left, each
\* search starting after the occurrence before it
RECURSIVE Split(_, _)
Split(s, sep) ==
    LET hits == Occurrences(s, sep)
        i == CHOOSE k \in hits : \A j \in hits : k <= j
    IN  IF hits = {} THEN <<s>>
        ELSE <<SubSeq(s, 1, i - 1)>> \o Split(SubSeq(s, i + Len(sep), Len(s)), sep)

\* as construct_label, with mem_id and answer in the order of the parameters
construct_label_ParameterOrder(task_type, answer, mem_id) ==
    <<task_type>> \o DELIMITER \o answer \o DELIMITER \o mem_id

\* f"{task_type.value}{DELIMITER}{mem_id}{DELIMITER}{answer}"
construct_label(task_type, answer, mem_id) ==
    <<task_type>> \o DELIMITER \o mem_id \o DELIMITER \o answer

NoTask == [task_type |-> "", mem_id |-> <<>>, answer |-> <<>>]

\* a call that raised: no value
Raised(error, label) ==
    [ok |-> FALSE, value |-> NoTask, error |-> error, label |-> label]

\* as extract_task_from_label, splitting at the first two delimiters only
extract_task_from_label_MaxSplit(label) ==
    LET parts == Split(label, DELIMITER)
        rest == SubSeq(label,
                       Len(parts[1]) + Len(parts[2]) + 2 * Len(DELIMITER) + 1,
                       Len(label))
    IN  IF Len(parts) < 3 THEN Raised("ValueError", label)
        ELSE IF ~(Len(parts[1]) = 1 /\ parts[1][1] \in TaskTypes)
             THEN Raised("ValueError", label)
        ELSE [ ok    |-> TRUE,
               value |-> [task_type |-> parts[1][1], mem_id |-> parts[2],
                          answer |-> rest],
               error |-> "", label |-> label ]

\* extract_task_from_label: the unpacking of line 44 raises ValueError unless
\* the split has three parts, TaskType(...) of line 45 unless the first part
\* is the value of a task type
extract_task_from_label(label) ==
    LET parts == Split(label, DELIMITER)
    IN  IF Len(parts) # 3 THEN Raised("ValueError", label)
        ELSE IF ~(Len(parts[1]) = 1 /\ parts[1][1] \in TaskTypes)
             THEN Raised("ValueError", label)
        ELSE [ ok    |-> TRUE,
               value |-> [task_type |-> parts[1][1], mem_id |-> parts[2],
                          answer |-> parts[3]],
               error |-> "", label |-> label ]

\* Inputs of the codec
MaxPartLen == 4

MaxRawPieces == 4

\* mem_id values: every short text over newline, tilde run and a letter, and
\* two that contain the delimiter
MemIds ==
    SeqsUpTo({"\n", Tildes, "m"}, MaxPartLen)
    \cup { DELIMITER, <<"m">> \o DELIMITER \o <<"m">> }

\* answer values: every short text over newline and a letter, one that
\* contains the delimiter and one that starts like the end of it
Answers ==
    SeqsUpTo({"\n", "a"}, MaxPartLen)
    \cup { <<"a">> \o DELIMITER, SubSeq(DELIMITER, 2, Len(DELIMITER)) \o <<"a">> }

LabelArgs == [task_type : TaskTypes, answer : Answers, mem_id : MemIds]

RECURSIVE Concat(_)
Concat(ss) == IF ss = <<>> THEN <<>> ELSE Head(ss) \o Concat(Tail(ss))

\* labels that construct_label did not build
RawLabels ==
    { Concat(ps) :
        ps \in SeqsUpTo({<<"update">>, <<"bogus">>, DELIMITER, <<"m">>},
                        MaxRawPieces) }

\* the variables of the rollout step, at rest
stepvars ==
    <<observation, task, step_num, done, reward, sandbox_calls, reply_calls,
      last, think_turns>>

StepIdle ==
    /\ observation = <<>>
    /\ task = NoTask
    /\ step_num = 0
    /\ done = FALSE
    /\ reward = 0
    /\ sandbox_calls = <<>>
    /\ reply_calls = <<>>
    /\ last = NoCall
    /\ think_turns = 0

\* Either the arguments of a label to build, or a label from elsewhere
InitLabel ==
    /\ StepIdle
    /\ ToolIdle
    /\ \/ /\ pc = "encode"
          /\ input \in LabelArgs
          /\ output = NoOutput
       \/ /\ pc = "label"
          /\ input = NoTask
          /\ output \in {[NoOutput EXCEPT !.label = l] : l \in RawLabels}

ConstructLabel ==
    /\ pc = "encode"
    /\ output' = [NoOutput EXCEPT
                    !.label = construct_label(input.task_type, input.answer,
                                              input.mem_id)]
    /\ pc' = "encoded"
    /\ UNCHANGED <<stepvars, toolvars, input>>

ExtractTaskFromLabel ==
    /\ pc \in {"encoded", "label"}
    /\ output' = extract_task_from_label(output.label)
    /\ pc' = IF pc = "encoded" THEN "decoded" ELSE "decoded_raw"
    /\ UNCHANGED <<stepvars, toolvars, input>>

NextLabel == ConstructLabel \/ ExtractTaskFromLabel

SpecLabel == InitLabel /\ [][NextLabel]_vars

----------------------------------------------------------------------------
(* Transcript pruning: remove_all_thinks_except_last *)

\* every token of the model's texts that contains the character "<": the
\* class [^<] of line 146 stops at each of them
LtTokens ==
    { "<think>", "</think>", "<python>", "</python>", "<reply>", "</reply>",
      "<result>", "</result>", "<", "<|im_start|>user",
      "<|im_start|>assistant", "<|im_end|>" }

\* body.strip() == ""
IsBlank(b) == \A k \in 1..Len(b) : b[k] \in WS

\* re.sub(re.escape(pat), "", s, count=1): s without the leftmost occurrence
\* of the literal pat, s itself when there is none
RemoveFirst(s, pat) ==
    LET hits == Occurrences(s, pat)
        i == CHOOSE k \in hits : \A j \in hits : k <= j
    IN  IF hits = {} THEN s
        ELSE SubSeq(s, 1, i - 1) \o SubSeq(s, i + Len(pat), Len(s))

\* lines 129-134: the index of the last block with a non-whitespace body,
\* 0 when there is none
LastNonEmptyIndex(blocks) ==
    LET non_empty == {i \in 1..Len(blocks) : ~IsBlank(blocks[i])}
    IN  IF non_empty = {} THEN 0
        ELSE CHOOSE i \in non_empty : \A j \in non_empty : j <= i

\* lines 137-141: for each block from i on, in order, except the kept one,
\* remove the leftmost occurrence of <think>body</think> from the text
RECURSIVE RemoveBlocks(_, _, _, _)
RemoveBlocks(res, blocks, keep, i) ==
    IF i > Len(blocks) THEN res
    ELSE RemoveBlocks(IF i = keep THEN res
                      ELSE RemoveFirst(res, <<"<think>">> \o blocks[i] \o <<"</think>">>),
                      blocks, keep, i + 1)

\* the lookahead [^<]*</think> of line 146 at index i: the first token from
\* i on that contains "<" is a closing think tag
Closes(s, i) ==
    LET lts == {k \in i..Len(s) : s[k] \in LtTokens}
    IN  lts # {} /\ s[CHOOSE k \in lts : \A j \in lts : k <= j] = "</think>"

\* re.search of line 147: the index of the leftmost <think> the lookahead
\* does not close, 0 when there is none
IncompleteStart(s) ==
    LET hits == {i \in 1..Len(s) : s[i] = "<think>" /\ ~Closes(s, i + 1)}
    IN  IF hits = {} THEN 0 ELSE CHOOSE i \in hits : \A j \in hits : i <= j

\* lines 111-151: result_after
ResultAfter(after_assistant) ==
    LET think_blocks == ThinkBlocks(after_assistant)
        complete ==
            IF Len(think_blocks) = 0 THEN after_assistant
            ELSE IF Len(think_blocks) = 1
                 THEN IF IsBlank(think_blocks[1])
                      THEN RemoveFirst(after_assistant,
                                       <<"<think>">> \o think_blocks[1] \o <<"</think>">>)
                      ELSE after_assistant
            ELSE RemoveBlocks(after_assistant, think_blocks,
                              LastNonEmptyIndex(think_blocks), 1)
        incomplete_match == IncompleteStart(complete)
    IN  IF incomplete_match = 0 THEN complete
        ELSE SubSeq(complete, 1, incomplete_match - 1)

\* as remove_all_thinks_except_last, without the split at "assistant"
remove_all_thinks_except_last_WholeText(obs) ==
    ResultAfter(obs)

remove_all_thinks_except_last(obs) ==
    LET assistant_pos == Find(obs, "assistant", 1)
    IN  IF assistant_pos = 0 THEN obs
        ELSE SubSeq(obs, 1, assistant_pos) \o ResultAfter(AfterAssistant(obs))

\* Inputs of the pruning
MaxBodyLen == 6

\* what precedes the model's turns: nothing, the marker alone, and a prompt
\* that itself holds think tags
PrunePrefixes ==
    { <<>>,
      <<"assistant">>,
      <<"<think>", " ", "</think>", "<think>", "user", "\n", "assistant", "\n">> }

\* transcripts with a second assistant marker, with markup in the reasoning
\* and with a reply after it
PruneSamples ==
    { <<"assistant", "\n", "<think>", "a", "</think>", "<python>", "c",
        "</python>", "\n", "user", "\n", "<result>", "r", "</result>", "\n",
        "assistant", "\n", "<think>", "b", "</think>", "<reply>", "r",
        "</reply>">>,
      <<"assistant", "\n", "<think>", "a", "<python>", "c", "</python>",
        "</think>", "<reply>", "r", "</reply>">>,
      <<"assistant", "\n", "<think>", "a", "</think>", "<think>", " ",
        "</think>", "<think>", "\n", "</think>", "<reply>", "r", "</reply>",
        "<think>", "b">> }

PruneInputs ==
    { p \o b : p \in PrunePrefixes,
               b \in SeqsUpTo({"<think>", "</think>", " ", "a", "<"}, MaxBodyLen) }
    \cup PruneSamples

InitPrune ==
    /\ StepIdle
    /\ ToolIdle
    /\ pc = "prune"
    /\ input \in PruneInputs
    /\ output = NoOutput

Prune ==
    /\ pc = "prune"
    /\ output' = [NoOutput EXCEPT !.value = remove_all_thinks_except_last(input)]
    /\ pc' = "pruned"
    /\ UNCHANGED <<stepvars, toolvars, input>>

NextPrune == Prune

SpecPrune == InitPrune /\ [][NextPrune]_vars

----------------------------------------------------------------------------
(* Transcript readers: extract_question and extract_python_blocks *)

UserStart == "<|im_start|>user"

AssistantStart == "<|im_start|>assistant"

ImEnd == "<|im_end|>"

NoQuestion == "Observation does not contain a question"

NoAssistantBlock ==
    "Trying to get question from observation but no assistant block found"

\* a reader that raised ValueError(error)
RaisedError(error) ==
    [ok |-> FALSE, value |-> <<>>, error |-> error, label |-> <<>>]

\* a reader that returned text
Returned(text) == [NoOutput EXCEPT !.value = text]

\* as extract_question, reading the last user segment
extract_question_LastSegment(obs) ==
    LET segments == Split(obs, <<UserStart>>)
        extracted_question ==
            Strip(Split(segments[Len(segments)], <<AssistantStart>>)[1])
    IN  IF ~Contains(obs, <<UserStart>>) THEN RaisedError(NoQuestion)
        ELSE IF ~Contains(obs, <<AssistantStart>>) THEN RaisedError(NoAssistantBlock)
        ELSE IF Contains(extracted_question, <<ImEnd>>)
             THEN Returned(Strip(Split(extracted_question, <<ImEnd>>)[1]))
        ELSE Returned(extracted_question)

\* extract_question: both markers are looked for in the whole observation
\* (lines 58-59); the text is the second part of the split at the user
\* marker, up to the first assistant marker in it, if any (line 60)
extract_question(obs) ==
    LET extracted_question ==
            Strip(Split(Split(obs, <<UserStart>>)[2], <<AssistantStart>>)[1])
    IN  IF ~Contains(obs, <<UserStart>>) THEN RaisedError(NoQuestion)
        ELSE IF ~Contains(obs, <<AssistantStart>>) THEN RaisedError(NoAssistantBlock)
        ELSE IF Contains(extracted_question, <<ImEnd>>)
             THEN Returned(Strip(Split(extracted_question, <<ImEnd>>)[1]))
        ELSE Returned(extracted_question)

\* re.findall(r"<python>(.*?)</python>", s), without re.DOTALL: a match
\* starts at the leftmost opening tag whose first closing tag comes before
\* any line break, and the search goes on after that closing tag
RECURSIVE PythonBlocks(_)
PythonBlocks(s) ==
    LET close(i) == Find(s, "</python>", i + 1)
        starts == {i \in 1..Len(s) :
                     /\ s[i] = "<python>"
                     /\ close(i) # 0
                     /\ \A k \in (i + 1)..(close(i) - 1) : s[k] # "\n"}
        i == CHOOSE k \in starts : \A j \in starts : k <= j
    IN  IF starts = {} THEN <<>>
        ELSE <<SubSeq(s, i + 1, close(i) - 1)>>
             \o PythonBlocks(SubSeq(s, close(i) + 1, Len(s)))

\* "\n".join(f"<python>{block}</python>" for block in blocks)
RECURSIVE JoinPython(_)
JoinPython(blocks) ==
    IF blocks = <<>> THEN <<>>
    ELSE <<"<python>">> \o Head(blocks) \o <<"</python>">>
         \o (IF Len(blocks) = 1 THEN <<>> ELSE <<"\n">> \o JoinPython(Tail(blocks)))

extract_python_blocks(obs) == JoinPython(PythonBlocks(obs))

\* Inputs of the readers
MaxQuestionLen == 6

MaxCodeLen == 5

\* a chat transcript as the tokenizer's template lays it out: system prompt,
\* question, a model turn, a tool result in a user turn, a model turn
QuestionSamples ==
    { <<"<|im_start|>system", "\n", "s", ImEnd, "\n", UserStart, "\n", "q",
        ImEnd, "\n", AssistantStart, "\n", "r", ImEnd, "\n", UserStart, "\n",
        "<result>", "r", "</result>", ImEnd, "\n", AssistantStart, "\n">>,
      <<UserStart, "\n", "q", " ", "q", "\n", AssistantStart, "\n">> }

QuestionInputs ==
    SeqsUpTo({UserStart, AssistantStart, ImEnd, "q", "r", " "}, MaxQuestionLen)
    \cup QuestionSamples

InitQuestion ==
    /\ StepIdle
    /\ ToolIdle
    /\ pc = "question"
    /\ input \in QuestionInputs
    /\ output = NoOutput

ExtractQuestion ==
    /\ pc = "question"
    /\ output' = extract_question(input)
    /\ pc' = "asked"
    /\ UNCHANGED <<stepvars, toolvars, input>>

NextQuestion == ExtractQuestion

SpecQuestion == InitQuestion /\ [][NextQuestion]_vars

\* a transcript with two actions, one of them on two lines
PythonSamples ==
    { <<"assistant", "\n", "<think>", "a", "</think>", "<python>", "c",
        "</python>", "\n", "user", "\n", "<result>", "r", "</result>", "\n",
        "assistant", "\n", "<python>", "c", "\n", "c", "</python>">> }

PythonInputs ==
    SeqsUpTo({"<python>", "</python>", "\n", "c"}, MaxCodeLen) \cup PythonSamples

InitPython ==
    /\ StepIdle
    /\ ToolIdle
    /\ pc = "python"
    /\ input \in PythonInputs
    /\ output = NoOutput

ExtractPythonBlocks ==
    /\ pc = "python"
    /\ output' = Returned(extract_python_blocks(input))
    /\ pc' = "extracted"
    /\ UNCHANGED <<stepvars, toolvars, input>>

NextPython == ExtractPythonBlocks

SpecPython == InitPython /\ [][NextPython]_vars

----------------------------------------------------------------------------
(* Patch tool: write_to_file (agent/tools.py).  The call is followed        *)
(* statement by statement; what the file system and git answer is chosen    *)
(* by the environment.                                                      *)

\* the files of the working directory beside the scratch patch
FileNames == {"user.md", "other.md"}

\* the scratch patch temp_patch_<uuid>.patch of line 122
Scratch == "scratch"

\* a unified diff: the file its header names and how it fares against that
\* file: it applies, its context conflicts, it is no diff at all, or it
\* holds a character the file encoding cannot write
Diffs ==
    [path : FileNames, kind : {"clean", "conflict", "malformed", "unencodable"}]

\* the exit code of git apply --check: 0 when the diff applies to the file
\* it names
CheckReturnCode(fs, diff) ==
    IF diff.kind = "clean" /\ fs[diff.path] # "absent" THEN 0 ELSE 1

\* the working directory after git apply exits with rc: the file the diff
\* names is patched on 0, nothing is touched otherwise
ApplyEffect(fs, diff, rc) ==
    IF rc = 0 THEN [fs EXCEPT ![diff.path] = "v1"] ELSE fs

\* as DryRunPassed, whatever the exit code
DryRunPassed_Ungated(rc) == TRUE

\* line 137: the call goes on to the apply phase
DryRunPassed(rc) == rc = 0

\* as ApplyReturn, negated
ApplyReturn_Negated(rc) == rc # 0

\* line 148: return apply.returncode == 0
ApplyReturn(rc) == rc = 0

\* a call that returned a boolean, and one that raised
ReturnedBool(b) == [NoOutput EXCEPT !.value = b]

\* lines 125-127, open(temp_file_path, "w"): creates the scratch file, or
\* raises and creates nothing
OpenScratch ==
    /\ pc = "open"
    /\ \E created \in BOOLEAN :
          IF created
          THEN /\ files' = [files EXCEPT ![Scratch] = "empty"]
               /\ pc' = "write"
               /\ UNCHANGED output
          ELSE /\ output' = RaisedError("OSError")
               /\ pc' = "finally"
               /\ UNCHANGED files
    /\ UNCHANGED <<stepvars, input, calls, removed, patch_file, rollouts>>

\* lines 127-128, tmp.write(diff) and patch_file = str(temp_file_path): the
\* write raises on a diff the encoding cannot hold or on an I/O error, and
\* then patch_file is never bound
WriteScratch ==
    /\ pc = "write"
    /\ \E io_ok \in BOOLEAN :
          IF io_ok /\ input.diff.kind # "unencodable"
          THEN /\ files' = [files EXCEPT ![Scratch] = "diff"]
               /\ patch_file' = Scratch
               /\ pc' = "check"
               /\ UNCHANGED output
          ELSE /\ output' = RaisedError(IF input.diff.kind = "unencodable"
                                        THEN "UnicodeEncodeError" ELSE "OSError")
               /\ pc' = "finally"
               /\ UNCHANGED <<files, patch_file>>
    /\ UNCHANGED <<stepvars, input, calls, removed, rollouts>>

\* lines 131-139, the dry run: subprocess.run raises FileNotFoundError when
\* there is no git; a non-zero exit code returns False
DryRun ==
    /\ pc = "check"
    /\ \E git_found \in BOOLEAN :
          IF ~git_found
          THEN /\ calls' = Append(calls, [cmd |-> "check", ran |-> FALSE, rc |-> 0])
               /\ output' = RaisedError("FileNotFoundError")
               /\ pc' = "finally"
          ELSE LET rc == CheckReturnCode(files, input.diff)
               IN  /\ calls' = Append(calls, [cmd |-> "check", ran |-> TRUE, rc |-> rc])
                   /\ IF DryRunPassed(rc)
                      THEN pc' = "apply" /\ UNCHANGED output
                      ELSE pc' = "finally" /\ output' = ReturnedBool(FALSE)
    /\ UNCHANGED <<stepvars, input, files, removed, patch_file, rollouts>>

\* lines 141-148, the real apply and the return of its outcome; git may
\* still fail here (the file has become unwritable, the disk is full)
Apply ==
    /\ pc = "apply"
    /\ \E rc \in {0, 1} :
          /\ rc = 0 => CheckReturnCode(files, input.diff) = 0
          /\ calls' = Append(calls, [cmd |-> "apply", ran |-> TRUE, rc |-> rc])
          /\ files' = ApplyEffect(files, input.diff, rc)
          /\ output' = ReturnedBool(ApplyReturn(rc))
    /\ pc' = "finally"
    /\ UNCHANGED <<stepvars, input, removed, patch_file, rollouts>>

\* lines 149-152, the finally clause: reading patch_file while it is
\* unbound raises UnboundLocalError in place of what was pending; otherwise
\* the scratch file is removed if it exists, and the pending return or
\* exception goes through
Cleanup ==
    /\ pc = "finally"
    /\ IF patch_file = "unbound"
       THEN /\ output' = RaisedError("UnboundLocalError")
            /\ UNCHANGED <<files, removed>>
       ELSE /\ IF files[patch_file] # "absent"
               THEN /\ files' = [files EXCEPT ![patch_file] = "absent"]
                    /\ removed' = removed + 1
               ELSE UNCHANGED <<files, removed>>
            /\ UNCHANGED output
    /\ pc' = "returned"
    /\ UNCHANGED <<stepvars, input, calls, patch_file, rollouts>>

\* a working directory with or without each file, no scratch patch in it,
\* and the arguments of the call
InitPatch ==
    /\ StepIdle
    /\ pc = "open"
    /\ input \in [file_path : FileNames, diff : Diffs]
    /\ output = NoOutput
    /\ files \in {f \in [FileNames \cup {Scratch} -> {"absent", "v0"}] :
                    f[Scratch] = "absent"}
    /\ calls = <<>>
    /\ removed = 0
    /\ patch_file = "unbound"
    /\ rollouts = <<>>

NextPatch == OpenScratch \/ WriteScratch \/ DryRun \/ Apply \/ Cleanup

SpecPatch == InitPatch /\ [][NextPatch]_vars

----------------------------------------------------------------------------
(* Two rollouts side by side, their calls of process_action_base interleaved *)

\* longest rollout of the two
MaxPairTurns == 2

RolloutIds == {1, 2}

\* mem_id values as a dataset can give them: plain directory names, a nested
\* name, the empty string and an absolute path
PairMemIds ==
    { <<"m1">>, <<"m2">>, <<"m1", "/", "x">>, <<>>, <<"/", "tmp">> }

PairTurns ==
    { Turn(<<"t", "h", "o">>, c, r) :
        c \in {<<>>, <<"read_file(", "'user.md'", ")">>},
        r \in {<<>>, <<"r">>} }

\* a rollout before its first step
FreshRollout(mem_id) ==
    [ task        |-> [task_type |-> "retrieval", mem_id |-> mem_id,
                       answer |-> <<"a">>],
      observation |-> Prompt,
      step_num    |-> 0,
      done        |-> FALSE,
      inputs      |-> <<>>,
      results     |-> <<>>,
      sandbox     |-> <<>> ]

\* the rollout after one call of process_action_base on its own transcript,
\* task and step number; inputs, results and sandbox are its history
AfterStep(ro, turn, min_length, exec_ret, reply_ret) ==
    LET r == ProcessActionBase(ro.observation, turn.action, turn.python_code,
                               turn.reply, turn.thoughts, ro.task, min_length,
                               ro.step_num, exec_ret, reply_ret)
    IN  [ task        |-> ro.task,
          observation |-> r.next_observation,
          step_num    |-> ro.step_num + 1,
          done        |-> r.done,
          inputs      |-> Append(ro.inputs,
                                 [turn |-> turn, min_length |-> min_length,
                                  exec_ret |-> exec_ret, reply_ret |-> reply_ret]),
          results     |-> Append(ro.results,
                                 [reward |-> r.reward, done |-> r.done,
                                  observation |-> r.next_observation]),
          sandbox     |-> ro.sandbox \o r.sandbox_calls ]

InitPair ==
    /\ StepIdle
    /\ pc = "pair"
    /\ input = <<>>
    /\ output = NoOutput
    /\ files = <<>>
    /\ calls = <<>>
    /\ removed = 0
    /\ patch_file = "unbound"
    /\ rollouts \in { [id \in RolloutIds |-> FreshRollout(ms[id])] :
                        ms \in {m \in [RolloutIds -> PairMemIds] : m[1] # m[2]} }

\* the driver of rollout id makes its next call
PairStep(id) ==
    /\ ~rollouts[id].done
    /\ rollouts[id].step_num < MaxPairTurns
    /\ \E turn \in PairTurns, min_length \in ThoughtsMinLengths \ {0} :
          \E e \in Reached(turn, "PYTHON_STEP", RolloutExecResults),
             v \in Reached(turn, "REPLY_TERMINAL", RolloutReplyRewards) :
                rollouts' = [rollouts EXCEPT
                               ![id] = AfterStep(rollouts[id], turn, min_length, e, v)]
    /\ UNCHANGED <<stepvars, pc, input, output, files, calls, removed, patch_file>>

NextPair == \E id \in RolloutIds : PairStep(id)

SpecPair == InitPair /\ [][NextPair]_vars

----------------------------------------------------------------------------
(* Judge: get_model_response and the rewards built on it (training/reward.py) *)

\* range(3) of line 108
JUDGE_ATTEMPTS == 3

\* what one chat completion comes to: the provider call raises, the content
\* holds no JSON, the JSON does not validate against the schema, or it
\* validates with the verdict true or false
Completions ==
    { [kind |-> "provider_error", verdict |-> FALSE],
      [kind |-> "no_json", verdict |-> FALSE],
      [kind |-> "schema_violation", verdict |-> FALSE],
      [kind |-> "valid", verdict |-> TRUE],
      [kind |-> "valid", verdict |-> FALSE] }

\* get_model_response returned None
None == [kind |-> "None", verdict |-> FALSE]

\* as Validated, with any JSON taken for a response
Validated_AnyJson(c) == c.kind \in {"valid", "schema_violation"}

\* lines 110-129: the attempt reaches return schema.model_validate(data)
\* and the validation does not raise
Validated(c) == c.kind = "valid"

\* the judge functions and their debug flag
JudgeCalls == [fn : {"get_retrieval_reward", "get_update_reward"}, debug : BOOLEAN]

InitJudge ==
    /\ StepIdle
    /\ pc = "attempt"
    /\ input \in JudgeCalls
    /\ output = NoOutput
    /\ ToolIdle

\* one pass of the loop of lines 108-133: the completion is requested; a
\* validated response is returned at once, a failure is printed and, on the
\* last attempt, None is returned
JudgeAttempt ==
    /\ pc = "attempt"
    /\ Len(calls) < JUDGE_ATTEMPTS
    /\ \E c \in Completions :
          /\ calls' = Append(calls, c)
          /\ IF Validated(c)
             THEN pc' = "judged" /\ output' = Returned(c)
             ELSE IF Len(calls) = JUDGE_ATTEMPTS - 1
                  THEN pc' = "judged" /\ output' = Returned(None)
                  ELSE pc' = "attempt" /\ UNCHANGED output
    /\ UNCHANGED <<stepvars, input, files, removed, patch_file, rollouts>>

\* get_retrieval_reward, lines 154-171, and get_update_reward, lines
\* 201-216, on the response r of the judge: the debug file is opened when
\* debug is set and a failure to dump is printed; retrieval returns 0.0 for
\* None, update reads response.success of whatever it got
RewardOf(fn, r) ==
    IF r = None
    THEN IF fn = "get_retrieval_reward" THEN Returned(0)
         ELSE RaisedError("AttributeError")
    ELSE Returned(IF r.verdict THEN One ELSE 0)

JudgeReward ==
    /\ pc = "judged"
    /\ output' = RewardOf(input.fn, output.value)
    /\ files' = IF input.debug THEN <<"judge_response.json">> ELSE files
    /\ pc' = "rewarded"
    /\ UNCHANGED <<stepvars, input, calls, removed, patch_file, rollouts>>

NextJudge == JudgeAttempt \/ JudgeReward

SpecJudge == InitJudge /\ [][NextJudge]_vars

----------------------------------------------------------------------------
(* Reply-reward evaluators: training/retrieval.py and training/update.py *)

\* the parameters of the functions in play, in order, and those of them
\* that have a default
Signatures ==
    [ calculate_retrieval_reply_reward |->
          [params |-> <<"observation", "reply", "task", "mem_ids_dumps_dict">>,
           defaults |-> {}],
      calculate_update_reply_reward |->
          [params |-> <<"observation", "reply", "task">>, defaults |-> {}],
      get_retrieval_reward |->
          [params |-> <<"question", "agent_reply", "ground_truth", "debug">>,
           defaults |-> {"debug"}],
      get_update_reward |->
          [params |-> <<"user_query", "initial_folder_dump",
                        "final_folder_dump", "debug">>,
           defaults |-> {"debug"}] ]

\* a call with n positional arguments and the keyword arguments kws binds to
\* the signature; Python raises TypeError otherwise
Binds(sig, n, kws) ==
    /\ n <= Len(sig.params)
    /\ \A k \in kws : \E i \in (n + 1)..Len(sig.params) : sig.params[i] = k
    /\ \A i \in (n + 1)..Len(sig.params) : sig.params[i] \in kws \cup sig.defaults

\* the keywords of the call of update.py lines 8-12
UpdateKeywords == {"python_blocks", "diff", "debug"}

\* calculate_retrieval_reply_reward called with n positional arguments;
\* judged is what get_retrieval_reward returns
calculate_retrieval_reply_reward(obs, n, judged) ==
    IF ~Binds(Signatures.calculate_retrieval_reply_reward, n, {})
    THEN RaisedError("TypeError")
    ELSE IF ~extract_question(obs).ok THEN extract_question(obs)
    ELSE IF ~Binds(Signatures.get_retrieval_reward, 3, {})
         THEN RaisedError("TypeError")
    ELSE Returned(judged)

\* calculate_update_reply_reward called with n positional arguments; judged
\* is what get_update_reward returns
calculate_update_reply_reward(obs, n, judged) ==
    IF ~Binds(Signatures.calculate_update_reply_reward, n, {})
    THEN RaisedError("TypeError")
    ELSE IF ~Binds(Signatures.get_update_reward, 0, UpdateKeywords)
         THEN RaisedError("TypeError")
    ELSE Returned(judged)

\* Inputs of the evaluators
MaxEvalLen == 3

\* the evaluator, the transcript and the number of arguments of the call:
\* three as at action_processor.py line 115, or four
EvaluatorCalls ==
    [ fn : {"calculate_retrieval_reply_reward", "calculate_update_reply_reward"},
      observation : SeqsUpTo({UserStart, AssistantStart, "q", "<python>",
                              "</python>"}, MaxEvalLen),
      nargs : {3, 4} ]

InitEvaluator ==
    /\ StepIdle
    /\ pc = "evaluate"
    /\ input \in EvaluatorCalls
    /\ output = NoOutput
    /\ ToolIdle

CallEvaluator ==
    /\ pc = "evaluate"
    /\ \E judged \in RolloutReplyRewards :
          output' = IF input.fn = "calculate_retrieval_reply_reward"
                    THEN calculate_retrieval_reply_reward(input.observation,
                                                          input.nargs, judged)
                    ELSE calculate_update_reply_reward(input.observation,
                                                       input.nargs, judged)
    /\ pc' = "evaluated"
    /\ UNCHANGED <<stepvars, toolvars, input>>

NextEvaluator == CallEvaluator

SpecEvaluator == InitEvaluator /\ [][NextEvaluator]_vars

----------------------------------------------------------------------------
(* Properties *)

\* p is a prefix of s
IsPrefix(p, s) == Len(p) <= Len(s) /\ SubSeq(s, 1, Len(p)) = p

\* a call has returned
Called == pc # "AWAITING_ACTION"

\* the classes of the last call's turn, from its arguments
PythonPresent == Len(Strip(last.python_code)) > 0
ReplyPresent == Len(Strip(last.reply)) > 0
ReplyOnly == Called /\ ReplyPresent /\ ~PythonPresent
PythonOnly == Called /\ PythonPresent /\ ~ReplyPresent
BothPresent == Called /\ PythonPresent /\ ReplyPresent
NeitherPresent == Called /\ ~PythonPresent /\ ~ReplyPresent

\* the transcript and turn text the last call was given
Given == last.observation \o last.action

\* what the last call appended after the transcript and the turn text
Appended == SubSeq(observation, Len(Given) + 1, Len(observation))

\* C1: after every call, whatever its step number, thoughts and task, done
\* is true if and only if the turn was reply-only (reply non-empty after
\* trimming, python code empty after trimming).
C1_DoneIffReplyOnly ==
    Called => (done <=> (ReplyPresent /\ ~PythonPresent))

C1_Witness ==
    /\ ReplyOnly /\ done
    /\ last.step_num >= MAX_STEPS
    /\ last.python_code # <<>>

\* C2: a reply-only turn calls the reply-reward calculator exactly once, with
\* the transcript before the turn, the reply and the task; never calls the
\* sandbox; adds the returned value to the reward; returns done; and returns
\* the old transcript extended by the turn text, with no message and no role
\* marker after it.
C2_ReplyOnlyStep ==
    ReplyOnly =>
        /\ Len(reply_calls) = 1
        /\ reply_calls[1].observation = last.observation
        /\ reply_calls[1].reply = last.reply
        /\ reply_calls[1].task = task
        /\ sandbox_calls = <<>>
        /\ last.raw = last.thoughts_reward + reply_calls[1].ret
        /\ reward = Max(0, Min(One, last.raw))
        /\ done
        /\ IsPrefix(Given, observation)
        /\ \A i \in 1..Len(Appended) : Appended[i] \in WS

C2_Witness ==
    /\ ReplyOnly
    /\ task.task_type = "update"
    /\ Len(reply_calls) = 1 /\ reply_calls[1].ret = One
    /\ last.thoughts_reward > 0
    /\ observation = Given \o <<"\n">>

\* C3: a python-only turn calls the sandbox executor exactly once, with the
\* turn's code and allowed_path = MEMORY_PATH joined with the task's mem_id;
\* never calls the reply-reward calculator; returns done = false; and appends
\* a user marker, the observation formatted from the executor's
\* (locals, error), and an assistant marker, with or without an error.
C3_PythonOnlyStep ==
    PythonOnly =>
        /\ Len(sandbox_calls) = 1
        /\ sandbox_calls[1].code = last.python_code
        /\ sandbox_calls[1].allowed_path = MEMORY_PATH \o <<"/">> \o task.mem_id
        /\ reply_calls = <<>>
        /\ ~done
        /\ observation =
              Given \o UserMarker
              \o FormatResults(sandbox_calls[1].ret.local_vars,
                               sandbox_calls[1].ret.error_msg)
              \o AssistantMarker
        /\ sandbox_calls[1].ret.error_msg # <<>> =>
              Contains(Appended, sandbox_calls[1].ret.error_msg)

C3_Witness ==
    /\ PythonOnly
    /\ Len(sandbox_calls) = 1
    /\ sandbox_calls[1].ret.error_msg = <<"PermissionError">>
    /\ Contains(Appended, <<"PermissionError">>)
    /\ ~done

\* C4 as stated: a malformed turn (both present, or neither) returns a reward
\* equal to the thoughts component.
C4_RewardIsThoughtsComponent ==
    (BothPresent \/ NeitherPresent) => reward = last.thoughts_reward

\* C4, amended: a malformed turn calls neither collaborator, returns
\* done = false, adds no component to the thoughts component, returns that
\* component clamped to [0, 1] (the component itself when step_num is at most
\* MAX_STEPS), and appends a corrective user message: "Choose one action" for
\* both present, the different "Missing action blocks" for neither.
C4_MalformedStep ==
    (BothPresent \/ NeitherPresent) =>
        /\ sandbox_calls = <<>>
        /\ reply_calls = <<>>
        /\ ~done
        /\ last.raw = last.thoughts_reward
        /\ reward = Max(0, Min(One, last.thoughts_reward))
        /\ last.step_num <= MAX_STEPS => reward = last.thoughts_reward
        /\ BothPresent =>
              /\ observation =
                    Given \o UserMarker \o ChooseOneMessage \o AssistantMarker
              /\ Contains(Appended, <<"Choose one action">>)
              /\ ~Contains(Appended, <<"Missing action blocks">>)
        /\ NeitherPresent =>
              /\ observation =
                    Given \o UserMarker \o MissingActionMessage \o AssistantMarker
              /\ Contains(Appended, <<"Missing action blocks">>)
              /\ ~Contains(Appended, <<"Choose one action">>)

C4_Witness ==
    /\ BothPresent
    /\ last.step_num > MAX_STEPS
    /\ last.thoughts_reward < 0
    /\ reward = 0
    /\ Contains(Appended, <<"Choose one action">>)

\* C5: the reward of every call lies in [0, 1], on every branch, for every
\* step number and every value the reply-reward calculator returns.
C5_RewardInUnitInterval == 0 <= reward /\ reward <= One

C5_Witness ==
    /\ ReplyOnly
    /\ last.step_num > MAX_STEPS
    /\ last.raw > One
    /\ reward = One

\* C6 as stated: in every call the sum of the reward components before
\* clamping is not negative.
C6_SumNeverNegative == Called => last.raw >= 0

\* C6, amended: the sum of the components before clamping is not negative
\* when step_num is at most MAX_STEPS and the reply-reward calculator returns
\* no negative value; past MAX_STEPS the thoughts component of non-empty
\* thoughts is negative, and line 135 raises a negative sum to 0.
C6_SumNonNegativeInRange ==
    /\ (Called /\ last.step_num <= MAX_STEPS /\ last.reply_reward >= 0)
          => last.raw >= 0
    /\ (Called /\ last.step_num > MAX_STEPS /\ Len(Strip(last.thoughts)) > 0)
          => last.thoughts_reward < 0
    /\ (Called /\ last.raw < 0) => reward = 0

C6_Witness ==
    /\ PythonOnly
    /\ last.step_num = MAX_STEPS - 1
    /\ last.raw > 0
    /\ last.raw = last.thoughts_reward

\* the line through (x0, y0) and (x1, y1) at x
Line(x, x0, y0, x1, y1) == (y0 * (x1 - x) + y1 * (x - x0)) \div (x1 - x0)

\* the scale of the thoughts component as the specification draws it, over
\* twice the step number: 1.0 at 0, 0.2 at MAX_STEPS / 2, 0.0 at MAX_STEPS
TwoSegmentScale(step) ==
    IF 2 * step <= MAX_STEPS
    THEN Line(2 * step, 0, ScaleOne, MAX_STEPS, ScaleOne \div 5)
    ELSE Line(2 * step, MAX_STEPS, ScaleOne \div 5, 2 * MAX_STEPS, 0)

\* C7: for step_num in 0..MAX_STEPS the thoughts component is (0.05 if the
\* trimmed thoughts are non-empty, plus 0.05 if their length exceeds
\* thoughts_min_length) times the two-segment scale; 0.10 at step 0 with long
\* thoughts, 0.0 at MAX_STEPS; and it is part of the sum on every branch.
C7_ThoughtsComponent ==
    (Called /\ last.step_num <= MAX_STEPS) =>
        LET n == Len(Strip(last.thoughts))
            base == (IF n > 0 THEN 5 ELSE 0)
                    + (IF n > last.thoughts_min_length THEN 5 ELSE 0)
        IN  /\ last.thoughts_reward = base * TwoSegmentScale(last.step_num)
            /\ (last.step_num = 0 /\ n > 0 /\ n > last.thoughts_min_length)
                  => 10 * last.thoughts_reward = One
            /\ 2 * last.step_num = MAX_STEPS
                  => 5 * last.thoughts_reward = base * ScaleOne
            /\ last.step_num = MAX_STEPS => last.thoughts_reward = 0
            /\ last.raw =
                  last.thoughts_reward + last.python_reward + last.reply_reward

C7_Witness ==
    /\ NeitherPresent
    /\ 2 * last.step_num = MAX_STEPS
    /\ Len(Strip(last.thoughts)) > last.thoughts_min_length
    /\ 50 * last.thoughts_reward = One

\* C8: calculate_python_reward is 0.15 * max(0, 1 - 2 * step_num / MAX_STEPS),
\* plus 0.2 only at step 0 when the code contains one of the four bootstrap
\* idioms: 0.35 and 0.15 at step 0, 0.0 from MAX_STEPS / 2 on, and no bonus
\* at any other step.
C8_PythonReward ==
    PythonOnly =>
        LET step == last.step_num
            idiom ==
                \/ Contains(last.python_code,
                            <<"check_if_file_exists(", "'user.md'", ")">>)
                \/ Contains(last.python_code,
                            <<"check_if_file_exists(", "\"user.md\"", ")">>)
                \/ Contains(last.python_code, <<"read_file(", "'user.md'", ")">>)
                \/ Contains(last.python_code, <<"read_file(", "\"user.md\"", ")">>)
        IN  /\ 100 * MAX_STEPS * last.python_reward =
                  15 * One * Max(0, MAX_STEPS - 2 * step)
                  + (IF step = 0 /\ idiom THEN 20 * One * MAX_STEPS ELSE 0)
            /\ (step = 0 /\ idiom) => 100 * last.python_reward = 35 * One
            /\ (step = 0 /\ ~idiom) => 100 * last.python_reward = 15 * One
            /\ 2 * step >= MAX_STEPS => last.python_reward = 0
            /\ step # 0 => 100 * last.python_reward <= 15 * One

C8_Witness ==
    /\ PythonOnly
    /\ last.step_num = 1
    /\ Contains(last.python_code, <<"read_file(", "\"user.md\"", ")">>)
    /\ 400 * last.python_reward = 45 * One

\* C9: every step returns a transcript that has the transcript it was given,
\* followed by the turn text, as a prefix; so over a rollout each transcript
\* is a prefix of the next.
C9_AppendOnly ==
    [][ /\ IsPrefix(observation \o last'.action, observation')
        /\ IsPrefix(observation, observation') ]_vars

C9_Witness ==
    /\ step_num >= 2
    /\ pc = "PYTHON_STEP"
    /\ IsPrefix(Given, observation)
    /\ IsPrefix(Prompt, last.observation)
    /\ Len(last.observation) > Len(Prompt)

\* the complete think regions after the first assistant marker
Regions == Len(ThinkBlocks(AfterAssistant(observation)))

\* C10 as stated: after steps whose turns each held a think block, the
\* returned transcript holds at most one complete think region after the
\* first assistant marker.
C10_OnlyLatestThinkKept ==
    (Called /\ think_turns = step_num) => Regions <= 1

\* C10, amended: the step does not prune.  The transcript it returns keeps
\* every complete think region of the transcript it was given and of the turn
\* text, so after k turns that each held a think block it holds at least k
\* regions.
C10_EveryThinkKept == Regions >= think_turns

C10_Witness ==
    /\ think_turns = step_num
    /\ step_num >= 2
    /\ Regions = step_num
    /\ pc = "PYTHON_STEP"

\* text s ends with e
EndsWith(s, e) ==
    Len(e) <= Len(s) /\ SubSeq(s, Len(s) - Len(e) + 1, Len(s)) = e

\* the task the arguments of construct_label stand for
ArgsTask ==
    [task_type |-> input.task_type, mem_id |-> input.mem_id,
     answer |-> input.answer]

\* C11 as stated: when neither mem_id nor answer contains the delimiter,
\* decoding the constructed label gives the Task with that task_type, mem_id
\* and answer.
C11_RoundTrip ==
    (pc = "decoded" /\ ~Contains(input.mem_id, DELIMITER)
                    /\ ~Contains(input.answer, DELIMITER))
        => (output.ok /\ output.value = ArgsTask)

\* C11, amended: the label is task_type.value + DELIMITER + mem_id +
\* DELIMITER + answer, and decoding it gives back the Task when neither
\* mem_id nor answer contains the delimiter and mem_id does not end with the
\* delimiter less its last one or two newlines.
C11_RoundTripGuarded ==
    /\ pc \in {"encoded", "decoded"} =>
          output.label = <<input.task_type>> \o DELIMITER \o input.mem_id
                         \o DELIMITER \o input.answer
    /\ (/\ pc = "decoded"
        /\ ~Contains(input.mem_id, DELIMITER)
        /\ ~Contains(input.answer, DELIMITER)
        /\ ~EndsWith(input.mem_id, SubSeq(DELIMITER, 1, Len(DELIMITER) - 1))
        /\ ~EndsWith(input.mem_id, SubSeq(DELIMITER, 1, Len(DELIMITER) - 2)))
          => (output.ok /\ output.value = ArgsTask)

C11_Witness ==
    /\ pc = "decoded"
    /\ input.task_type = "clarification"
    /\ input.mem_id = <<"m", "\n", "\n">>
    /\ input.answer = <<>>
    /\ output.ok /\ output.value = ArgsTask

\* C12: extract_task_from_label raises, and returns no Task, for every label
\* whose split on the delimiter does not have exactly three parts: no
\* delimiter, one, or three or more.
C12_WrongPartCountFails ==
    pc \in {"decoded", "decoded_raw"} =>
        /\ Len(Split(output.label, DELIMITER)) # 3 =>
              (~output.ok /\ output.value = NoTask /\ output.error = "ValueError")
        /\ ~Contains(output.label, DELIMITER) => ~output.ok
        /\ (pc = "decoded" /\ ( \/ Contains(input.mem_id, DELIMITER)
                                \/ Contains(input.answer, DELIMITER) ))
              => ~output.ok

C12_Witness ==
    /\ pc = "decoded"
    /\ Contains(input.answer, DELIMITER)
    /\ Len(Split(output.label, DELIMITER)) = 4
    /\ ~output.ok /\ output.value = NoTask

\* the call of remove_all_thinks_except_last has returned
Pruned == pc = "pruned"

\* the input of the pruning after its first assistant marker, and the output
SuffixIn == AfterAssistant(input)

SuffixOut == AfterAssistant(output.value)

\* an opening think tag of s with no closing tag anywhere after it
Unterminated(s, i) ==
    s[i] = "<think>" /\ \A j \in (i + 1)..Len(s) : s[j] # "</think>"

HasUnterminated(s) == \E i \in 1..Len(s) : Unterminated(s, i)

\* C13: the output of the pruning starts with exactly the input's prefix
\* ending at the first "assistant", think tags in that prefix included; a
\* transcript with no assistant marker is returned unchanged.
C13_PrefixUntouched ==
    Pruned =>
        LET assistant_pos == Find(input, "assistant", 1)
        IN  IF assistant_pos = 0 THEN output.value = input
            ELSE /\ IsPrefix(SubSeq(input, 1, assistant_pos), output.value)
                 /\ Find(output.value, "assistant", 1) = assistant_pos

C13_Witness ==
    /\ Pruned
    /\ Find(input, "assistant", 1) > 1
    /\ HasUnterminated(SubSeq(input, 1, Find(input, "assistant", 1)))
    /\ ThinkBlocks(SubSeq(input, 1, Find(input, "assistant", 1))) # <<>>
    /\ output.value # input
    /\ IsPrefix(SubSeq(input, 1, Find(input, "assistant", 1)), output.value)

\* the spans <<i, j>> of the complete think regions of s, offset by d: each
\* runs from an opening tag to the first closing tag after it, and the next
\* is looked for after that closing tag
RECURSIVE RegionSpans(_, _)
RegionSpans(s, d) ==
    LET i == Find(s, "<think>", 1)
        j == IF i = 0 THEN 0 ELSE Find(s, "</think>", i + 1)
    IN  IF j = 0 THEN <<>>
        ELSE <<(<<d + i, d + j>>)>> \o RegionSpans(SubSeq(s, j + 1, Len(s)), d + j)

\* s without the tokens at the indexes in gone
RECURSIVE Without(_, _, _)
Without(s, gone, k) ==
    IF k > Len(s) THEN <<>>
    ELSE (IF k \in gone THEN <<>> ELSE <<s[k]>>) \o Without(s, gone, k + 1)

\* s with every complete think region deleted except the one numbered keep
ExceptRegion(s, keep) ==
    LET spans == RegionSpans(s, 0)
    IN  Without(s, UNION {spans[n][1]..spans[n][2] : n \in DOMAIN spans \ {keep}}, 1)

\* C14 as stated: after the first assistant marker every complete region with
\* an empty or all-whitespace body is removed, so none remains in the output,
\* and none at all when every body is whitespace; a single complete region
\* with a non-whitespace body is retained untouched.
C14_BlankRegionsRemoved ==
    (Pruned /\ Find(input, "assistant", 1) > 0) =>
        LET blocks == ThinkBlocks(SuffixIn)
            spans == RegionSpans(SuffixIn, 0)
        IN  /\ \A n \in DOMAIN ThinkBlocks(SuffixOut) :
                  ~IsBlank(ThinkBlocks(SuffixOut)[n])
            /\ (\A n \in DOMAIN blocks : IsBlank(blocks[n]))
                  => ThinkBlocks(SuffixOut) = <<>>
            /\ (Len(blocks) = 1 /\ ~IsBlank(blocks[1]))
                  => IsPrefix(SubSeq(SuffixIn, 1, spans[1][2]), SuffixOut)

\* C15 as stated: with two or more complete regions after the first
\* assistant marker and no opening tag without a later closing tag, the
\* pruned suffix is the input suffix with every complete region deleted
\* except the last one whose body is non-whitespace, whatever the bodies
\* contain.
C15_AllButLastNonBlankDeleted ==
    (/\ Pruned
     /\ Find(input, "assistant", 1) > 0
     /\ Len(ThinkBlocks(SuffixIn)) >= 2
     /\ ~HasUnterminated(SuffixIn))
        => SuffixOut = ExceptRegion(SuffixIn, LastNonEmptyIndex(ThinkBlocks(SuffixIn)))

\* the first opening think tag of s with no closing tag after it, 0 if none
FirstUnterminated(s) ==
    LET hits == {i \in 1..Len(s) : Unterminated(s, i)}
    IN  IF hits = {} THEN 0 ELSE CHOOSE i \in hits : \A j \in hits : i <= j

\* the complete-region rules alone: one region goes when its body is
\* whitespace, of several all go but the last with a non-whitespace body
CompleteRules(s) ==
    LET blocks == ThinkBlocks(s)
    IN  IF Len(blocks) = 1 /\ ~IsBlank(blocks[1]) THEN s
        ELSE ExceptRegion(s, LastNonEmptyIndex(blocks))

\* C16 as stated: when the suffix after the first assistant marker holds an
\* opening think tag with no closing tag after it, the suffix is cut at the
\* start of that tag, and what precedes the tag is kept subject only to the
\* complete-region rules, whatever it is.
C16_TruncatedAtUnterminatedTag ==
    (Pruned /\ Find(input, "assistant", 1) > 0 /\ HasUnterminated(SuffixIn))
        => SuffixOut = CompleteRules(SubSeq(SuffixIn, 1, FirstUnterminated(SuffixIn) - 1))

\* C17 as stated: after pruning, the suffix after the first assistant marker
\* holds at most one complete region, its body is non-whitespace, and no
\* unterminated opening tag remains.
C17_AtMostOneLiveRegion ==
    (Pruned /\ Find(input, "assistant", 1) > 0) =>
        /\ Len(ThinkBlocks(SuffixOut)) <= 1
        /\ ThinkBlocks(SuffixOut) # <<>> => ~IsBlank(ThinkBlocks(SuffixOut)[1])
        /\ ~HasUnterminated(SuffixOut)

\* the call of extract_question has returned or raised
Asked == pc = "asked"

\* the indexes of the user markers of the input
UserMarks == {i \in 1..Len(input) : input[i] = UserStart}

\* the user marker at i is followed by an assistant marker before the next
\* user marker
Answered(i) ==
    LET a == Find(input, AssistantStart, i + 1)
        u == Find(input, UserStart, i + 1)
    IN  a # 0 /\ (u = 0 \/ a < u)

\* the text between the user marker at i and the assistant marker after it
Segment(i) == SubSeq(input, i + 1, Find(input, AssistantStart, i + 1) - 1)

\* t trimmed, less an end-of-turn marker at its end
LessTrailingEnd(t) ==
    LET s == Strip(t)
    IN  IF s # <<>> /\ s[Len(s)] = ImEnd THEN Strip(SubSeq(s, 1, Len(s) - 1))
        ELSE s

\* t trimmed and cut at its first end-of-turn marker
CutAtEnd(t) ==
    LET e == Find(t, ImEnd, 1)
    IN  Strip(IF e = 0 THEN t ELSE SubSeq(t, 1, e - 1))

C19_TwoDistinctFailures ==
    Asked =>
        /\ UserMarks = {} => (~output.ok /\ output.error = NoQuestion)
        /\ (UserMarks # {} /\ \A i \in UserMarks : Find(input, AssistantStart, i + 1) = 0)
              => (~output.ok /\ output.error = NoAssistantBlock)
        /\ NoQuestion # NoAssistantBlock

\* the call of extract_python_blocks has returned
Extracted == pc = "extracted"

\* the bodies of the regions of s from an opening python tag to the nearest
\* closing tag after it, in document order
RECURSIVE PythonRegions(_)
PythonRegions(s) ==
    LET i == Find(s, "<python>", 1)
        j == IF i = 0 THEN 0 ELSE Find(s, "</python>", i + 1)
    IN  IF j = 0 THEN <<>>
        ELSE <<SubSeq(s, i + 1, j - 1)>> \o PythonRegions(SubSeq(s, j + 1, Len(s)))

\* C20 as stated: the result is the newline-join of the re-wrapped bodies of
\* every python region of the transcript in document order, whatever the
\* bodies contain, and is empty exactly when the transcript has no region.
C20_EveryRegionReturned ==
    Extracted =>
        /\ output.value = JoinPython(PythonRegions(input))
        /\ output.value = <<>> <=> PythonRegions(input) = <<>>

\* the call of write_to_file is over: it has returned or raised
PatchOver == pc = "returned"

\* a git run that completed with exit code 0
Succeeded(c) == c.ran /\ c.rc = 0

\* C21: within a call git apply is run only right after the dry run of the
\* same patch has exited with code 0; when the dry run exits non-zero or
\* does not complete, the apply phase is never run.
C21_ApplyOnlyAfterDryRun ==
    /\ \A i \in 1..Len(calls) :
          calls[i].cmd = "apply" =>
              i = 2 /\ calls[1].cmd = "check" /\ Succeeded(calls[1])
    /\ (Len(calls) >= 1 /\ ~Succeeded(calls[1])) => Len(calls) = 1
    /\ calls # <<>> => calls[1].cmd = "check"

C21_Witness ==
    /\ PatchOver
    /\ Len(calls) = 2
    /\ calls[2].cmd = "apply"
    /\ Succeeded(calls[1])

\* C22 as stated: write_to_file always returns a boolean, true exactly when
\* the dry run and the apply both succeeded, and false for every other
\* outcome, git unavailable and I/O errors on the scratch file included;
\* nothing surfaces as an exception.
C22_AlwaysReturnsBoolean ==
    PatchOver =>
        /\ output.ok
        /\ output.value \in BOOLEAN
        /\ output.value = (Len(calls) = 2 /\ Succeeded(calls[1]) /\ Succeeded(calls[2]))

\* C23 as stated: after every call, on every exit path, the scratch patch
\* file the call created no longer exists, and it was removed exactly once.
C23_ScratchRemovedOnce ==
    PatchOver =>
        /\ files[Scratch] = "absent"
        /\ removed <= 1
        /\ calls # <<>> => removed = 1

\* C24: a call that does not return true leaves the file at file_path as it
\* was: the file changes only in a step after which the call returns true,
\* and no call that returned false or raised ends with a patched file.
C24_FailedCallKeepsTarget ==
    /\ [][files'[input.file_path] # files[input.file_path]
            => (output'.ok /\ output'.value = TRUE)]_vars
    /\ [](PatchOver /\ ~(output.ok /\ output.value = TRUE)
            => files[input.file_path] # "v1")

C24_Witness ==
    /\ PatchOver
    /\ Len(calls) = 2
    /\ ~Succeeded(calls[2])
    /\ input.diff.path = input.file_path
    /\ output.ok /\ output.value = FALSE
    /\ files[input.file_path] = "v0"

\* C28 as stated: a call that returns true has changed the file at
\* file_path and no other file; which file is modified is determined by
\* file_path, not by the paths written in the diff.
C28_PatchesFilePath ==
    (PatchOver /\ output.ok /\ output.value = TRUE) =>
        /\ files[input.file_path] = "v1"
        /\ \A f \in FileNames \ {input.file_path} : files[f] # "v1"

\* C29 as stated: pruning is idempotent: pruning the output of the pruning
\* gives that output again, for every transcript.
C29_PruningIdempotent ==
    Pruned => remove_all_thinks_except_last(output.value) = output.value

\* directory d is the path p or lies above it
Above(d, p) ==
    /\ IsPrefix(d, p)
    /\ Len(d) = Len(p) \/ p[Len(d) + 1] = "/" \/ d[Len(d)] = "/"

\* the directory of a rollout under the memory root
OwnDir(id) == PathJoin(MEMORY_PATH, rollouts[id].task.mem_id)

\* every sandbox execution of rollout id is scoped to its own directory,
\* which lies under the memory root and is neither the directory of the
\* other rollout nor above it
Scoped(id) ==
    \A k \in DOMAIN rollouts[id].sandbox :
        LET p == rollouts[id].sandbox[k].allowed_path
        IN  /\ p = OwnDir(id)
            /\ IsPrefix(MEMORY_PATH \o <<"/">>, p)
            /\ Len(p) > Len(MEMORY_PATH) + 1
            /\ \A other \in RolloutIds \ {id} : ~Above(p, OwnDir(other))

\* the results of a rollout run alone on the turns and collaborator returns
\* of inputs
RECURSIVE RunAlone(_, _, _, _)
RunAlone(t, obs, step, inputs) ==
    IF inputs = <<>> THEN <<>>
    ELSE LET i == Head(inputs)
             r == ProcessActionBase(obs, i.turn.action, i.turn.python_code,
                                    i.turn.reply, i.turn.thoughts, t,
                                    i.min_length, step, i.exec_ret, i.reply_ret)
         IN  <<[reward |-> r.reward, done |-> r.done,
                observation |-> r.next_observation]>>
             \o RunAlone(t, r.next_observation, step + 1, Tail(inputs))

\* the results of rollout id are those of the same rollout run alone
AsAlone(id) ==
    rollouts[id].results
        = RunAlone(rollouts[id].task, Prompt, 0, rollouts[id].inputs)

\* a step of one rollout leaves the state of the other as it was
OneRolloutMoves ==
    \A id \in RolloutIds :
        rollouts'[id] # rollouts[id] =>
            \A other \in RolloutIds \ {id} : rollouts'[other] = rollouts[other]

\* a mem_id that is one plain directory name
Plain(mem_id) == Len(mem_id) = 1 /\ mem_id[1] \notin {"/", ".", ".."}

Rewarded == pc = "rewarded"

\* the completion the judge call ended on
LastCompletion == calls[Len(calls)]

\* C27 as stated: get_retrieval_reward and get_update_reward return exactly
\* 1.0 or 0.0 for every outcome of the judge call, debug on or off: 1.0 only
\* when the validated response reports success, 0.0 otherwise, also when the
\* judge call returned None.
C27_RewardIsZeroOrOne ==
    Rewarded =>
        /\ output.ok
        /\ output.value \in {0, One}
        /\ output.value = One
              <=> (Validated(LastCompletion) /\ LastCompletion.verdict)

C26_EvaluatorContract ==
    (pc = "evaluated" /\ input.nargs = 3) =>
        /\ output.ok
        /\ output.value \in 0..One
        /\ input.fn = "calculate_update_reply_reward"
              => Binds(Signatures.get_update_reward, 0, UpdateKeywords)

====
